---- MODULE Spec2Model ----
(***************************************************************************)
(* Model of the two inference Lambdas of CDK_Tensorflow:                   *)
(*   lambda_funcs/TensorflowLambda/tensorflow_lambda.py        (get_model, *)
(*       handler)                                                          *)
(*   lambda_funcs/TensorflowLambda/dryer_prediction_lambda.py  (get_models,*)
(*       Modeling.get_prediction, handler)                                 *)
(* The EFS mount /mnt/models and the S3 buckets are the shared state. A    *)
(* loader call runs statement by statement: each access to the mount or to *)
(* a bucket is a step of its own, and the environment (uploads, deletions, *)
(* another process) may act between two of them.                           *)
(***************************************************************************)
EXTENDS Integers, Sequences, FiniteSets, TLC, Bags

VARIABLES
    efs,          \* the mount /mnt/models: local path -> file
    s3,           \* the object store: <<bucket, key>> -> object
    globals,      \* module globals of the running process (model, drying_time_model, ...)
    call,         \* the loader call in progress: its position and its locals
    last,         \* observation of the most recent finished loader call
    prev,         \* observation of the finished loader call before it
    steps,        \* number of calls begun and environment changes (bounded by MaxSteps)
    atomicReplace,\* whether a download replaces the destination file atomically
    target,       \* the identifier the concurrent workers resolve
    pc,           \* per worker: position inside its resolve
    wres,         \* per worker: what its resolve observed
    request,      \* the last HTTP invocation: variant, payload and how it was rendered
    response,     \* the handler's response (or the exception it raised)
    predictCalls  \* the predict() invocations of the last handler run, in order

vars == <<efs, s3, globals, call, last, prev, steps, atomicReplace, target, pc, wres,
          request, response, predictCalls>>

loaderVars == <<efs, s3, globals, call, last, prev, steps>>
concVars == <<atomicReplace, target, pc, wres>>
handlerVars == <<request, response, predictCalls>>

\* ------------------------------------------------------------------ bounds

\* Loader calls begun and environment changes of one behaviour.
MaxSteps == 4

\* ------------------------------------------------------------- artifacts

\* A file or object: present with bytes, or missing. A file of the mount
\* may be present and yet closed to the POSIX user the Lambda runs as.
NoFile == [exists |-> FALSE, bytes |-> <<>>, readable |-> FALSE]
File(b) == [exists |-> TRUE, bytes |-> b, readable |-> TRUE]
Unreadable(b) == [exists |-> TRUE, bytes |-> b, readable |-> FALSE]

\* Serialized artifacts: a header byte and the pickled model. ArtifactA and
\* ArtifactB are two versions of a model; BadArtifact does not deserialize.
ArtifactA == <<"P", "modelA">>
ArtifactB == <<"P", "modelB">>
BadArtifact == <<"Z", "modelA">>
Artifacts == {ArtifactA, ArtifactB, BadArtifact}

\* Outcome of an expression: a value, or a raised exception.
Ok(v) == [kind |-> "ok", value |-> v, error |-> ""]
Raise(e) == [kind |-> "raise", value |-> "", error |-> e]

\* joblib.load(f) on the bytes of an open file: the model, or an exception
\* that is not FileNotFoundError (a truncated or damaged pickle).
joblib_load(bytes) ==
    IF Len(bytes) < 2 THEN Raise("EOFError")
    ELSE IF bytes[1] # "P" THEN Raise("UnpicklingError")
    ELSE Ok(bytes[2])

\* with open(local_path, "rb") as f: f.seek(0); joblib.load(f)
\* open() raises FileNotFoundError for a missing file and PermissionError
\* (an OSError that is not FileNotFoundError) for one it may not read.
OpenAndLoad(fs, local_path) ==
    IF ~fs[local_path].exists THEN Raise("FileNotFoundError")
    ELSE IF ~fs[local_path].readable THEN Raise("PermissionError")
    ELSE joblib_load(fs[local_path].bytes)

\* ----------------------------------------------------------------- paths

ModelNames == <<"predict_drying_time.sklearn", "predict_distribution.tensorflow">>
TensorflowName == "model.tensorflow"
AllNames == {TensorflowName} \cup {ModelNames[i] : i \in 1..Len(ModelNames)}

\* Path(f"/mnt/models/{model_name}")
LocalPath(model_name) == <<"/", "mnt", "models", model_name>>
LocalPaths == {LocalPath(n) : n \in AllNames}

\* Path(s3_uri).parts for s3_uri = f"s3://dryer-data/Meta/Models/new_models/{model_name}":
\* pathlib collapses the double slash, so the first two parts are "s3:" and the bucket.
UriParts(model_name) == <<"s3:", "dryer-data", "Meta", "Models", "new_models", model_name>>

\* ("/").join(Path(s3_uri).parts[2:]), kept as its components.
DryerKey(model_name) == SubSeq(UriParts(model_name), 3, Len(UriParts(model_name)))

DryerObject(model_name) == <<"dryer-data", DryerKey(model_name)>>
TensorflowObject == <<"models-bucket", <<TensorflowName>>>>
S3Objects == {TensorflowObject} \cup {DryerObject(n) : n \in AllNames \ {TensorflowName}}

\* The object a model name is fetched from.
ObjectOf(model_name) ==
    IF model_name = TensorflowName THEN TensorflowObject ELSE DryerObject(model_name)

\* ---------------------------------------------------------------- S3 client

\* Mutant: the download reports success without writing the destination.
download_file_nowrite(fs, store, object, local_path) ==
    IF ~store[object].exists
    THEN [fs |-> fs, error |-> "ClientError404"]
    ELSE [fs |-> fs, error |-> ""]

\* Mutant: a failed download leaves an empty destination file behind.
download_file_partial(fs, store, object, local_path) ==
    IF ~store[object].exists
    THEN [fs |-> [fs EXCEPT ![local_path] = File(<<>>)], error |-> "ClientError404"]
    ELSE [fs |-> [fs EXCEPT ![local_path] = File(store[object].bytes)], error |-> ""]

\* Mutant: the download stops short and leaves a truncated destination.
download_file_truncated(fs, store, object, local_path) ==
    IF ~store[object].exists
    THEN [fs |-> fs, error |-> "ClientError404"]
    ELSE [fs |-> [fs EXCEPT ![local_path] =
                     File(SubSeq(store[object].bytes, 1, Len(store[object].bytes) - 1))],
          error |-> ""]

\* client.download_file(bucket, key, str(local_path)): a missing key raises
\* ClientError (404) and leaves the destination untouched; otherwise the
\* destination is replaced by a new file that holds the object's bytes.
download_file(fs, store, object, local_path) ==
    IF ~store[object].exists
    THEN [fs |-> fs, error |-> "ClientError404"]
    ELSE [fs |-> [fs EXCEPT ![local_path] = File(store[object].bytes)], error |-> ""]

\* ------------------------------------------------- statements of a resolve

\* Mutant: the try block never reads the mount.
TryBlock_always_miss(fs, local_path, reload_models) ==
    [out |-> Raise("FileNotFoundError"), opens |-> 0]

\* Mutant: the try block ignores reload_models.
TryBlock_ignore_reload(fs, local_path, reload_models) ==
    [out |-> OpenAndLoad(fs, local_path), opens |-> 1]

\* The try block: with reload_models it raises FileNotFoundError before any
\* open(); otherwise it opens and loads the local file. (get_model has no
\* reload_models: its try block is the one of reload_models = False.)
TryBlock(fs, local_path, reload_models) ==
    IF reload_models THEN [out |-> Raise("FileNotFoundError"), opens |-> 0]
    ELSE [out |-> OpenAndLoad(fs, local_path), opens |-> 1]

\* Mutant: "except Exception" instead of "except FileNotFoundError".
Caught_any(out) == out.kind = "raise"

\* except FileNotFoundError: whether the try block's outcome enters the
\* except block.
Caught(out) == out.error = "FileNotFoundError"

\* What a loader call gives its caller: the list of models, or an exception.
Returned(models_) == [kind |-> "return", models |-> models_, error |-> ""]
Raised(e) == [kind |-> "raise", models |-> <<>>, error |-> e]

\* Mutant: an iteration's exception is swallowed and the models loaded so far
\* are returned.
IterationEnd_partial(models_, out, more) ==
    IF out.kind = "raise"
    THEN [go |-> FALSE, models |-> models_, ret |-> Returned(models_)]
    ELSE IF more
    THEN [go |-> TRUE, models |-> Append(models_, out.value), ret |-> Raised("")]
    ELSE [go |-> FALSE, models |-> Append(models_, out.value),
          ret |-> Returned(Append(models_, out.value))]

\* The end of an iteration: an exception leaves the function (models_ is
\* lost with its frame); a loaded model is appended to models_, and the loop
\* goes on to the next name or, after the last, the function returns models_.
IterationEnd(models_, out, more) ==
    IF out.kind = "raise"
    THEN [go |-> FALSE, models |-> <<>>, ret |-> Raised(out.error)]
    ELSE IF more
    THEN [go |-> TRUE, models |-> Append(models_, out.value), ret |-> Raised("")]
    ELSE [go |-> FALSE, models |-> Append(models_, out.value),
          ret |-> Returned(Append(models_, out.value))]

\* ------------------------------------------- a call nobody interferes with

\* One resolve run from start to end on a mount and a bucket that nothing
\* else touches meanwhile: the loop body of get_models, and with
\* reload_models = False the body of get_model.
LoadOrDownload(fs, store, model_name, reload_models) ==
    LET local_path == LocalPath(model_name)
        first == TryBlock(fs, local_path, reload_models)
    IN  IF ~Caught(first.out)
        THEN [fs |-> fs, out |-> first.out, opens |-> first.opens, downloads |-> 0]
        ELSE LET dl == download_file(fs, store, ObjectOf(model_name), local_path)
             IN  IF dl.error # ""
                 THEN [fs |-> dl.fs, out |-> Raise(dl.error), opens |-> first.opens,
                       downloads |-> 1]
                 ELSE [fs |-> dl.fs, out |-> OpenAndLoad(dl.fs, local_path),
                       opens |-> first.opens + 1, downloads |-> 1]

\* tensorflow_lambda.get_model, undisturbed: try the mount; on
\* FileNotFoundError download from models-bucket to the mount and load the
\* downloaded file; return the model.
get_model(fs, store) ==
    LET r == LoadOrDownload(fs, store, TensorflowName, FALSE)
    IN  [fs |-> r.fs, ret |-> IterationEnd(<<>>, r.out, FALSE).ret,
         downloads |-> r.downloads]

\* The for loop of get_models over the names still to load, undisturbed.
RECURSIVE GetModelsLoop(_, _, _, _, _, _)
GetModelsLoop(names, fs, store, reload_models, models_, downloads) ==
    LET r == LoadOrDownload(fs, store, Head(names), reload_models)
        e == IterationEnd(models_, r.out, Len(names) > 1)
    IN  IF e.go
        THEN GetModelsLoop(Tail(names), r.fs, store, reload_models, e.models,
                           downloads + r.downloads)
        ELSE [fs |-> r.fs, ret |-> e.ret, downloads |-> downloads + r.downloads]

\* dryer_prediction_lambda.get_models(reload_models), undisturbed.
get_models(fs, store, reload_models) ==
    GetModelsLoop(ModelNames, fs, store, reload_models, <<>>, 0)

\* ------------------------------------------------------ the running call

Unbound == "Unbound"
FreshGlobals ==
    [model |-> Unbound, drying_time_model |-> Unbound, distribution_model |-> Unbound]

\* What one resolve of one identifier saw and did, filled in step by step:
\*   before   the local file when the try block ran
\*   remote   the bucket's object at the download (with no download: when
\*            the try block ran)
\*   written  the local file right after download_file
\*   reread   the local file at the second open()
\*   after    the local file right after the resolve's last step
\*   touched  the files the resolve's own steps changed
NewIter(model_name, reload_models) ==
    [name |-> model_name, reload |-> reload_models,
     before |-> NoFile, remote |-> NoFile, written |-> NoFile, reread |-> NoFile,
     opens |-> 0, downloads |-> 0, out |-> Raise("pending"),
     after |-> NoFile, touched |-> {}]

\* The names a loader resolves, in order.
Names(fn) == IF fn = "get_model" THEN <<TensorflowName>> ELSE ModelNames

EmptyMount == [p \in LocalPaths |-> NoFile]
EmptyStore == [o \in S3Objects |-> NoFile]

\* No call in progress.
Idle ==
    [fn |-> "none", reload |-> FALSE, pc |-> "idle", i |-> 0, models |-> <<>>,
     iters |-> <<>>, cur |-> NewIter("", FALSE),
     fs0 |-> EmptyMount, store0 |-> EmptyStore, disturbed |-> FALSE]

\* A call begins: models_ = [] and the first name's try block is next.
Begin(fn, reload_models) ==
    [fn |-> fn, reload |-> reload_models, pc |-> "try", i |-> 1, models |-> <<>>,
     iters |-> <<>>, cur |-> NewIter(Names(fn)[1], reload_models),
     fs0 |-> efs, store0 |-> s3, disturbed |-> FALSE]

NoCall ==
    [fn |-> "none", reload |-> FALSE, iters |-> <<>>, ret |-> Raised(""),
     fsAfter |-> EmptyMount, fs0 |-> EmptyMount, store0 |-> EmptyStore,
     disturbed |-> FALSE]

\* The module line that called the loader binds its globals from what the
\* call returned: "model = get_model()", or the unpacking
\* "drying_time_model, distribution_model = get_models(reload_models=False)",
\* which binds only from a list of exactly two models. An exception binds
\* nothing. A call get_models(reload_models=True) is not a module line.
Bind(fn, reload_models, ret) ==
    IF reload_models THEN globals
    ELSE IF ret.kind # "return" THEN FreshGlobals
    ELSE IF fn = "get_model" /\ Len(ret.models) = 1
    THEN [FreshGlobals EXCEPT !.model = ret.models[1]]
    ELSE IF fn = "get_models" /\ Len(ret.models) = 2
    THEN [FreshGlobals EXCEPT !.drying_time_model = ret.models[1],
                              !.distribution_model = ret.models[2]]
    ELSE FreshGlobals

\* The current iteration ended with the observation rec, on the mount fs.
EndIteration(rec, fs) ==
    LET e == IterationEnd(call.models, rec.out, call.i < Len(Names(call.fn)))
    IN  IF e.go
        THEN /\ call' = [call EXCEPT !.pc = "try", !.i = @ + 1, !.models = e.models,
                                     !.iters = Append(@, rec),
                                     !.cur = NewIter(Names(call.fn)[call.i + 1],
                                                     call.reload)]
             /\ UNCHANGED <<globals, last, prev>>
        ELSE /\ call' = Idle
             /\ last' = [fn |-> call.fn, reload |-> call.reload,
                         iters |-> Append(call.iters, rec), ret |-> e.ret,
                         fsAfter |-> fs, fs0 |-> call.fs0, store0 |-> call.store0,
                         disturbed |-> call.disturbed]
             /\ prev' = last
             /\ globals' = Bind(call.fn, call.reload, e.ret)

\* Cold start of the tensorflow Lambda: the module body reaches
\* "model = get_model()".
ImportTensorflow ==
    /\ steps < MaxSteps
    /\ call.pc = "idle"
    /\ call' = Begin("get_model", FALSE)
    /\ globals' = FreshGlobals
    /\ steps' = steps + 1
    /\ UNCHANGED <<efs, s3, last, prev, concVars, handlerVars>>

\* Cold start of the dryer Lambda: the module body reaches
\* "drying_time_model, distribution_model = get_models(reload_models=False)".
ImportDryer ==
    /\ steps < MaxSteps
    /\ call.pc = "idle"
    /\ call' = Begin("get_models", FALSE)
    /\ globals' = FreshGlobals
    /\ steps' = steps + 1
    /\ UNCHANGED <<efs, s3, last, prev, concVars, handlerVars>>

\* A call get_models(reload_models=True) begins; the module's own globals
\* stay as the import bound them.
ReloadModels ==
    /\ steps < MaxSteps
    /\ call.pc = "idle"
    /\ call' = Begin("get_models", TRUE)
    /\ steps' = steps + 1
    /\ UNCHANGED <<efs, s3, globals, last, prev, concVars, handlerVars>>

\* The try block of the current iteration. Any outcome but
\* FileNotFoundError ends the iteration; FileNotFoundError enters the except
\* block, whose first statement is the download.
Try ==
    /\ call.pc = "try"
    /\ LET name == Names(call.fn)[call.i]
           first == TryBlock(efs, LocalPath(name), call.reload)
           seen == [call.cur EXCEPT !.before = efs[LocalPath(name)],
                                    !.remote = s3[ObjectOf(name)],
                                    !.opens = first.opens,
                                    !.after = efs[LocalPath(name)]]
       IN  IF Caught(first.out)
           THEN /\ call' = [call EXCEPT !.pc = "download", !.cur = seen]
                /\ UNCHANGED <<globals, last, prev>>
           ELSE EndIteration([seen EXCEPT !.out = first.out], efs)
    /\ UNCHANGED <<efs, s3, steps, concVars, handlerVars>>

\* client.download_file(...) of the except block. Its exception leaves the
\* function; otherwise the second open() is next.
Download ==
    /\ call.pc = "download"
    /\ LET name == Names(call.fn)[call.i]
           dl == download_file(efs, s3, ObjectOf(name), LocalPath(name))
           done == [call.cur EXCEPT !.remote = s3[ObjectOf(name)],
                                    !.downloads = @ + 1,
                                    !.written = dl.fs[LocalPath(name)],
                                    !.after = dl.fs[LocalPath(name)],
                                    !.touched = @ \cup {p \in LocalPaths : dl.fs[p] # efs[p]}]
       IN  /\ efs' = dl.fs
           /\ IF dl.error # ""
              THEN EndIteration([done EXCEPT !.out = Raise(dl.error)], dl.fs)
              ELSE /\ call' = [call EXCEPT !.pc = "reopen", !.cur = done]
                   /\ UNCHANGED <<globals, last, prev>>
    /\ UNCHANGED <<s3, steps, concVars, handlerVars>>

\* The second "with open(local_path, "rb") as f: ... joblib.load(f)", on the
\* file as it is by then.
Reopen ==
    /\ call.pc = "reopen"
    /\ LET name == Names(call.fn)[call.i]
       IN  EndIteration([call.cur EXCEPT !.reread = efs[LocalPath(name)],
                                         !.opens = @ + 1,
                                         !.out = OpenAndLoad(efs, LocalPath(name)),
                                         !.after = efs[LocalPath(name)]],
                        efs)
    /\ UNCHANGED <<efs, s3, steps, concVars, handlerVars>>

\* An environment step during a call is noted in the call.
Noted == IF call.pc = "idle" THEN call ELSE [call EXCEPT !.disturbed = TRUE]

\* The environment uploads an artifact to a bucket, ...
S3Put ==
    /\ steps < MaxSteps
    /\ \E o \in S3Objects, b \in Artifacts :
          /\ s3[o] # File(b)
          /\ s3' = [s3 EXCEPT ![o] = File(b)]
    /\ call' = Noted
    /\ steps' = steps + 1
    /\ UNCHANGED <<efs, globals, last, prev, concVars, handlerVars>>

\* ... removes one, ...
S3Delete ==
    /\ steps < MaxSteps
    /\ \E o \in S3Objects :
          /\ s3[o].exists
          /\ s3' = [s3 EXCEPT ![o] = NoFile]
    /\ call' = Noted
    /\ steps' = steps + 1
    /\ UNCHANGED <<efs, globals, last, prev, concVars, handlerVars>>

\* ... clears a file of the mount by hand, ...
EfsClear ==
    /\ steps < MaxSteps
    /\ \E p \in LocalPaths :
          /\ efs[p].exists
          /\ efs' = [efs EXCEPT ![p] = NoFile]
    /\ call' = Noted
    /\ steps' = steps + 1
    /\ UNCHANGED <<s3, globals, last, prev, concVars, handlerVars>>

\* ... or changes the owner or mode of a file of the mount, so that the
\* access point's POSIX user (uid 1001) may no longer read it.
EfsChmod ==
    /\ steps < MaxSteps
    /\ \E p \in LocalPaths :
          /\ efs[p].exists /\ efs[p].readable
          /\ efs' = [efs EXCEPT ![p] = Unreadable(efs[p].bytes)]
    /\ call' = Noted
    /\ steps' = steps + 1
    /\ UNCHANGED <<s3, globals, last, prev, concVars, handlerVars>>

NoRequest == [variant |-> "none", payload |-> <<>>]
NoResponse == [kind |-> "none", statusCode |-> 0, error |-> "", body |-> <<>>,
               formatted_data |-> [kind |-> "none", value |-> "", error |-> ""]]

\* A freshly deployed stack: empty mount, empty buckets, no process yet.
Init ==
    /\ efs = EmptyMount
    /\ s3 = EmptyStore
    /\ globals = FreshGlobals
    /\ call = Idle
    /\ last = NoCall
    /\ prev = NoCall
    /\ steps = 0
    /\ atomicReplace = TRUE
    /\ target = TensorflowName
    /\ pc = [w \in {} |-> "done"]
    /\ wres = [w \in {} |-> NoFile]
    /\ request = NoRequest
    /\ response = NoResponse
    /\ predictCalls = <<>>

Next ==
    \/ ImportTensorflow
    \/ ImportDryer
    \/ ReloadModels
    \/ Try
    \/ Download
    \/ Reopen
    \/ S3Put
    \/ S3Delete
    \/ EfsClear
    \/ EfsChmod

Spec == Init /\ [][Next]_vars

\* ------------------------------------------------------- loader properties

\* The resolves (one per identifier) of a finished loader call.
ItersOf(c) == {c.iters[i] : i \in 1..Len(c.iters)}
Observed == ItersOf(last) \cup ItersOf(prev)

\* The file is there, may be read and holds a model.
Deserializes(file) ==
    file.exists /\ file.readable /\ joblib_load(file.bytes).kind = "ok"

\* What reading a file that is there but gives no model fails with: the
\* permission error of open(), or the error of the deserialization.
ReadFailure(file) ==
    IF file.readable THEN joblib_load(file.bytes) ELSE Raise("PermissionError")

\* What the undisturbed loader gives on the mount and buckets a call began with.
Undisturbed(c) ==
    IF c.fn = "get_model" THEN get_model(c.fs0, c.store0)
    ELSE get_models(c.fs0, c.store0, c.reload)

\* A finished call into which the environment did not step ended as the
\* undisturbed loader does.
AsUndisturbed(c) ==
    (c.fn # "none" /\ ~c.disturbed) =>
        /\ c.ret = Undisturbed(c).ret
        /\ c.fsAfter = Undisturbed(c).fs

\* C1 (cold miss): a non-forced resolve that finds its identifier absent from
\* the mount and, at the fetch, present in the bucket downloads exactly once,
\* changes only the file /mnt/models/<identifier> and leaves in it the bytes
\* the bucket held at the fetch; it then gives what loading that file gives:
\* the model deserialized from those bytes, the file still being there
\* afterwards. (Were the file cleared by hand between the download and the
\* load, the load would find no file: FileNotFoundError, and no second fetch;
\* were it closed to the reader in that interval: PermissionError.)
C1_ColdMiss ==
    /\ \A it \in Observed :
          (~it.reload /\ ~it.before.exists /\ it.remote.exists) =>
              /\ it.downloads = 1
              /\ it.opens = 2
              /\ it.written = File(it.remote.bytes)
              /\ it.touched = {LocalPath(it.name)}
              /\ it.reread \in {it.written, NoFile, Unreadable(it.remote.bytes)}
              /\ it.reread = it.written =>
                    /\ it.out = joblib_load(it.remote.bytes)
                    /\ it.after = File(it.remote.bytes)
              /\ it.reread = NoFile => it.out = Raise("FileNotFoundError")
              /\ it.reread = Unreadable(it.remote.bytes) =>
                    it.out = Raise("PermissionError")
              /\ it.reread # it.written => last.disturbed \/ prev.disturbed
    /\ AsUndisturbed(last)

\* Both loaders have resolved a cold identifier and returned its model.
C1_Witness ==
    /\ prev.fn = "get_model" /\ last.fn = "get_models"
    /\ \A it \in {prev.iters[1], last.iters[1]} :
          /\ ~it.reload /\ ~it.before.exists /\ it.remote.exists
          /\ it.out.kind = "ok" /\ it.downloads = 1
          /\ it.after = File(it.remote.bytes)

\* C2 (warm hit, sequential idempotence): a non-forced resolve whose file
\* exists and deserializes makes no download and returns the file's model,
\* whatever the bucket holds; and of two resolves in sequence of an identifier
\* that was absent, the first downloads once, the second not at all, and both
\* return the same model.
C2_WarmHit ==
    /\ \A it \in Observed :
          (~it.reload /\ Deserializes(it.before)) =>
              /\ it.downloads = 0
              /\ it.out = joblib_load(it.before.bytes)
              /\ it.touched = {}
    /\ \A a \in ItersOf(prev), b \in ItersOf(last) :
          (/\ a.name = b.name /\ ~a.reload /\ ~b.reload
           /\ ~a.before.exists /\ a.out.kind = "ok"
           /\ b.before = a.after) =>
              /\ a.downloads = 1
              /\ b.downloads = 0
              /\ b.out = a.out

\* A second resolve returned the cached model although the bucket had changed.
C2_Witness ==
    \E a \in ItersOf(prev), b \in ItersOf(last) :
        /\ a.name = b.name /\ ~a.reload /\ ~b.reload
        /\ ~a.before.exists /\ a.out.kind = "ok" /\ b.before = a.after
        /\ b.remote.exists /\ b.remote # b.before
        /\ b.out = a.out /\ b.downloads = 0

\* The call a resolve belongs to ended with the resolve's exception.
Propagated(it) ==
    \A c \in {last, prev} :
        it \in ItersOf(c) => c.ret = Raised(it.out.error)

\* C3 (remote not found): a resolve that finds no local file and whose
\* download fails with NotFound makes that one download only, raises the
\* error to its caller, and changes no file of the mount: no file exists for
\* the identifier afterwards.
C3_RemoteNotFound ==
    \A it \in Observed :
        (~it.before.exists /\ it.downloads > 0 /\ ~it.remote.exists) =>
            /\ it.downloads = 1
            /\ it.opens = (IF it.reload THEN 0 ELSE 1)
            /\ it.out = Raise("ClientError404")
            /\ Propagated(it)
            /\ it.touched = {}
            /\ ~it.written.exists
            /\ ~it.after.exists

C3_Witness ==
    /\ last.fn = "get_model" /\ prev.fn = "get_models"
    /\ \A it \in {prev.iters[1], last.iters[1]} :
          /\ ~it.before.exists /\ ~it.remote.exists
          /\ it.out.kind = "raise" /\ it.downloads = 1

\* C4 (corrupt local artifact): a non-forced resolve whose file exists and
\* does not deserialize, or exists and cannot be read, raises that failure
\* (the deserialization error, or PermissionError; never FileNotFoundError)
\* to its caller, downloads nothing and changes no file; so the next
\* non-forced resolve of the identifier meets the same file and fails the
\* same way.
C4_CorruptLocal ==
    /\ \A it \in Observed :
          (~it.reload /\ it.before.exists /\ ~Deserializes(it.before)) =>
              /\ it.downloads = 0
              /\ it.opens = 1
              /\ it.out = ReadFailure(it.before)
              /\ it.out.kind = "raise"
              /\ it.out.error # "FileNotFoundError"
              /\ Propagated(it)
              /\ it.touched = {}
              /\ it.after = it.before
    /\ \A a \in ItersOf(prev), b \in ItersOf(last) :
          (/\ a.name = b.name /\ ~b.reload
           /\ a.after.exists /\ ~Deserializes(a.after)
           /\ b.before = a.after) =>
              /\ b.out = ReadFailure(a.after)
              /\ b.after = a.after

\* A resolve failed on the file a previous resolve had cached and loaded,
\* closed to the reader since: PermissionError and no download, although the
\* bucket held the artifact.
C4_Witness ==
    \E a \in ItersOf(prev), b \in ItersOf(last) :
        /\ a.name = b.name /\ ~a.reload /\ ~b.reload
        /\ a.downloads = 1 /\ a.out.kind = "ok"
        /\ b.before = Unreadable(a.after.bytes) /\ Deserializes(b.remote)
        /\ b.out = Raise("PermissionError") /\ b.downloads = 0 /\ b.after = b.before

\* A resolve failed on the corrupt file a previous resolve had cached, although
\* the bucket held a good artifact by then.
C4_CorruptReached ==
    \E a \in ItersOf(prev), b \in ItersOf(last) :
        /\ a.name = b.name /\ ~a.reload /\ ~b.reload
        /\ a.downloads = 1 /\ a.out.kind = "raise" /\ a.after.exists
        /\ b.before = a.after /\ b.before.readable /\ Deserializes(b.remote)
        /\ b.out.kind = "raise" /\ b.downloads = 0 /\ b.after = b.before

\* get_models ended with its first identifier loaded and its second failed.
PartialFailure(c) ==
    /\ c.fn = "get_models"
    /\ Len(c.iters) = 2
    /\ c.iters[1].out.kind = "ok"
    /\ c.iters[2].out.kind = "raise"

\* C9 as stated: after a partial failure the earlier model is loaded and
\* available to the caller.
C9_EarlierModelAvailable ==
    PartialFailure(last) =>
        /\ last.ret.kind = "return"
        /\ Len(last.ret.models) >= 1
        /\ last.ret.models[1] = last.iters[1].out.value

\* C9 (amended): get_models resolves its identifiers in the fixed order, the
\* second only after the first succeeded, and undisturbed it is the loop of
\* independent resolves; when the second fails after the first succeeded,
\* the call leaves the first's file alone (no rollback), but it raises: the
\* caller receives no model and the import binds neither global.
C9_NoRollbackNoPartialResult ==
    /\ last.fn = "get_models" =>
          /\ Len(last.iters) \in 1..2
          /\ \A i \in 1..Len(last.iters) : last.iters[i].name = ModelNames[i]
          /\ Len(last.iters) = 2 => last.iters[1].out.kind = "ok"
          /\ Len(last.iters) = 1 => last.iters[1].out.kind = "raise"
          /\ AsUndisturbed(last)
    /\ PartialFailure(last) =>
          /\ last.ret = Raised(last.iters[2].out.error)
          /\ last.ret.models = <<>>
          /\ ~last.reload =>
                /\ globals.drying_time_model = Unbound
                /\ globals.distribution_model = Unbound
          /\ last.iters[1].after.exists
          /\ last.iters[2].touched \subseteq {LocalPath(ModelNames[2])}
          /\ ~last.disturbed =>
                last.fsAfter[LocalPath(ModelNames[1])] = last.iters[1].after

\* The import's get_models cached and loaded the first model, then failed on
\* the second.
C9_Witness ==
    /\ PartialFailure(last)
    /\ ~last.reload
    /\ last.iters[1].downloads = 1
    /\ efs[LocalPath(ModelNames[1])] = File(last.iters[1].remote.bytes)
    /\ ~efs[LocalPath(ModelNames[2])].exists

\* C10 (forced refresh, fetch bound): with reload_models a resolve never reads
\* the file that was there: it goes to the download, which overwrites the
\* file with the bucket's bytes, and only then opens the file; and no
\* resolve, forced or not, failed or not, downloads more than once.
C10_ForcedRefresh ==
    /\ \A it \in Observed :
          it.reload =>
              /\ it.downloads = 1
              /\ it.opens = (IF it.remote.exists THEN 1 ELSE 0)
              /\ it.remote.exists =>
                    /\ it.written = File(it.remote.bytes)
                    /\ it.reread = it.written => it.out = joblib_load(it.remote.bytes)
              /\ ~it.remote.exists =>
                    /\ it.out = Raise("ClientError404")
                    /\ it.touched = {}
    /\ \A it \in Observed : it.downloads \in {0, 1}
    /\ call.cur.downloads \in {0, 1}

\* A forced resolve replaced a valid cached model by the bucket's newer one.
C10_Witness ==
    \E it \in ItersOf(last) :
        /\ it.reload
        /\ Deserializes(it.before) /\ Deserializes(it.remote)
        /\ it.remote # it.before
        /\ it.after = it.remote
        /\ it.out = joblib_load(it.remote.bytes)

\* ------------------------------------------------ uncoordinated resolves

\* Two execution environments sharing the mount (no lock in the source).
Workers == {"w1", "w2"}

Pending == [downloads |-> 0, out |-> Raise("pending"), read |-> NoFile]

\* The try block of a resolve: open and load the local file. Any outcome but
\* FileNotFoundError ends the resolve; FileNotFoundError enters the except block.
WTry(w) ==
    /\ pc[w] = "try"
    /\ LET first == TryBlock(efs, LocalPath(target), FALSE)
       IN  IF ~Caught(first.out)
           THEN /\ pc' = [pc EXCEPT ![w] = "done"]
                /\ wres' = [wres EXCEPT ![w].out = first.out,
                                        ![w].read = efs[LocalPath(target)]]
           ELSE /\ pc' = [pc EXCEPT ![w] = "download"]
                /\ UNCHANGED wres
    /\ UNCHANGED <<loaderVars, atomicReplace, target, handlerVars>>

\* client.download_file when the destination is replaced in one step.
WDownload(w) ==
    /\ pc[w] = "download"
    /\ atomicReplace
    /\ LET dl == download_file(efs, s3, ObjectOf(target), LocalPath(target))
       IN  /\ efs' = dl.fs
           /\ IF dl.error # ""
              THEN /\ pc' = [pc EXCEPT ![w] = "done"]
                   /\ wres' = [wres EXCEPT ![w].out = Raise(dl.error),
                                           ![w].downloads = @ + 1]
              ELSE /\ pc' = [pc EXCEPT ![w] = "reopen"]
                   /\ wres' = [wres EXCEPT ![w].downloads = @ + 1]
    /\ UNCHANGED <<s3, globals, call, last, prev, steps, atomicReplace, target,
                   handlerVars>>

\* client.download_file on a filesystem that shows partial writes: the
\* destination is created or truncated and holds a proper prefix of the bytes ...
WDownloadBegin(w) ==
    /\ pc[w] = "download"
    /\ ~atomicReplace
    /\ IF ~s3[ObjectOf(target)].exists
       THEN /\ pc' = [pc EXCEPT ![w] = "done"]
            /\ wres' = [wres EXCEPT ![w].out = Raise("ClientError404"),
                                    ![w].downloads = @ + 1]
            /\ UNCHANGED efs
       ELSE /\ \E k \in 0..(Len(s3[ObjectOf(target)].bytes) - 1) :
                  efs' = [efs EXCEPT ![LocalPath(target)] =
                             File(SubSeq(s3[ObjectOf(target)].bytes, 1, k))]
            /\ pc' = [pc EXCEPT ![w] = "writing"]
            /\ wres' = [wres EXCEPT ![w].downloads = @ + 1]
    /\ UNCHANGED <<s3, globals, call, last, prev, steps, atomicReplace, target,
                   handlerVars>>

\* ... until the last byte is written.
WDownloadEnd(w) ==
    /\ pc[w] = "writing"
    /\ efs' = [efs EXCEPT ![LocalPath(target)] = File(s3[ObjectOf(target)].bytes)]
    /\ pc' = [pc EXCEPT ![w] = "reopen"]
    /\ UNCHANGED <<s3, globals, call, last, prev, steps, atomicReplace, target, wres,
                   handlerVars>>

\* The second open and load, after the download.
WReopen(w) ==
    /\ pc[w] = "reopen"
    /\ pc' = [pc EXCEPT ![w] = "done"]
    /\ wres' = [wres EXCEPT ![w].out = OpenAndLoad(efs, LocalPath(target)),
                            ![w].read = efs[LocalPath(target)]]
    /\ UNCHANGED <<loaderVars, atomicReplace, target, handlerVars>>

\* Both workers cold-start on an empty mount and resolve the same identifier;
\* the bucket does not change during the race.
InitConc ==
    /\ efs = EmptyMount
    /\ target \in AllNames
    /\ \E o \in {NoFile} \cup {File(b) : b \in Artifacts} :
          s3 = [x \in S3Objects |-> IF x = ObjectOf(target) THEN o ELSE NoFile]
    /\ atomicReplace \in BOOLEAN
    /\ pc = [w \in Workers |-> "try"]
    /\ wres = [w \in Workers |-> Pending]
    /\ globals = FreshGlobals
    /\ call = Idle
    /\ last = NoCall
    /\ prev = NoCall
    /\ steps = 0
    /\ request = NoRequest
    /\ response = NoResponse
    /\ predictCalls = <<>>

NextConc ==
    \E w \in Workers :
        \/ WTry(w)
        \/ WDownload(w)
        \/ WDownloadBegin(w)
        \/ WDownloadEnd(w)
        \/ WReopen(w)

SpecConc == InitConc /\ [][NextConc]_vars

\* What a lone cold resolve of the target gives.
LoneResult == LoadOrDownload(efs, s3, target, TRUE).out

\* The worker's resolve loaded a file that held only part of the artifact.
ReadTruncated(w) ==
    /\ pc[w] = "done"
    /\ wres[w].read.exists
    /\ wres[w].read # s3[ObjectOf(target)]

\* C5 (uncoordinated concurrent resolves): under every interleaving each of
\* the two workers downloads at most once; when downloads replace the file
\* atomically the file is only ever absent or equal to the bucket's artifact
\* and every resolve ends as a lone resolve would, with the model of that
\* artifact; a resolve that loads a truncated file occurs only when partial
\* writes are visible (where it is reachable: the witness).
C5_UncoordinatedResolves ==
    /\ \A w \in Workers : wres[w].downloads \in {0, 1}
    /\ atomicReplace =>
          /\ efs[LocalPath(target)] \in {NoFile, s3[ObjectOf(target)]}
          /\ \A w \in Workers : pc[w] = "done" => wres[w].out = LoneResult
    /\ \A w \in Workers : ReadTruncated(w) => ~atomicReplace

\* With partial writes visible, a worker opened the file while the other was
\* still writing it, and its load of the truncated file failed although the
\* bucket's artifact is good.
C5_Witness ==
    /\ ~atomicReplace
    /\ Deserializes(s3[ObjectOf(target)])
    /\ \E w, v \in Workers :
          /\ w # v
          /\ ReadTruncated(w)
          /\ wres[w].out.kind = "raise"
          /\ pc[v] = "writing"

\* With atomic replacement, both workers fetched (one fetch was redundant)
\* and both returned the bucket's model.
C5_RedundantFetch ==
    /\ atomicReplace
    /\ \A w \in Workers :
          /\ pc[w] = "done"
          /\ wres[w].downloads = 1
          /\ wres[w].out.kind = "ok"
          /\ wres[w].out = LoneResult

\* ------------------------------------------------------ natural numbers

\* Items of a request list, bounded.
MaxItems == 3

Max(S) == CHOOSE x \in S : \A y \in S : y <= x
Min(S) == CHOOSE x \in S : \A y \in S : x <= y

\* A natural number of any size is the sequence of its limbs in a radix,
\* least significant first, the most significant limb not 0; <<>> is
\* zero. A radix has w digits d to the limb. Floats are binary; literals
\* and repr are decimal.
Bin == [d |-> 2, w |-> 15, base |-> 32768]
Ten == [d |-> 10, w |-> 4, base |-> 10000]

Limb(a, i) == IF i <= Len(a) THEN a[i] ELSE 0

Sum(f) == BagCardinality([i \in 1..Len(f) |-> f[i] + 1]) - Len(f)

\* The limbs of a without the zero limbs on top.
Trim(a) ==
    LET limbs == SubSeq(a, 1, Len(a))
    IN  IF \A i \in 1..Len(limbs) : limbs[i] = 0 THEN <<>>
        ELSE SubSeq(limbs, 1, CHOOSE i \in 1..Len(limbs) :
                                  limbs[i] # 0 /\ \A j \in (i + 1)..Len(limbs) : limbs[j] = 0)

\* The limbs of a machine-size natural.
BigOf(n, R) ==
    Trim(<<n % R.base, (n \div R.base) % R.base, n \div (R.base * R.base)>>)

\* A carry enters limb i of a + b when the limbs of a lower position add
\* up to the base or more and those of every position between to base - 1.
CarryIn(a, b, i, base) ==
    \E j \in 1..(i - 1) :
        /\ Limb(a, j) + Limb(b, j) >= base
        /\ \A k \in (j + 1)..(i - 1) : Limb(a, k) + Limb(b, k) = base - 1

\* a + b
BigAdd(a, b, R) ==
    Trim([i \in 1..((IF Len(a) > Len(b) THEN Len(a) ELSE Len(b)) + 1) |->
             (Limb(a, i) + Limb(b, i) + (IF CarryIn(a, b, i, R.base) THEN 1 ELSE 0))
             % R.base])

\* A borrow leaves limb i of a - b when a lower limb of a is below b's and
\* the limbs of every position between are equal.
BorrowIn(a, b, i) ==
    \E j \in 1..(i - 1) :
        /\ a[j] < Limb(b, j)
        /\ \A k \in (j + 1)..(i - 1) : a[k] = Limb(b, k)

\* a - b, for a >= b
BigSub(a, b, R) ==
    Trim([i \in 1..Len(a) |->
             (a[i] - Limb(b, i) - (IF BorrowIn(a, b, i) THEN 1 ELSE 0) + R.base)
             % R.base])

\* a < b
BigLess(a, b) ==
    \/ Len(a) < Len(b)
    \/ /\ Len(a) = Len(b)
       /\ \E i \in 1..Len(a) :
             /\ a[i] < b[i]
             /\ \A j \in (i + 1)..Len(a) : a[j] = b[j]

\* a * base^n
ShiftLimbs(a, n) == IF a = <<>> THEN <<>> ELSE [i \in 1..n |-> 0] \o a

\* The products a[i] * b[j] that weigh base^(c - 1): those with i + j = c + 1.
ColumnOf(a, b, c) ==
    LET lo == IF c > Len(b) THEN c + 1 - Len(b) ELSE 1
        hi == IF c < Len(a) THEN c ELSE Len(a)
    IN  [t \in 1..(hi - lo + 1) |-> a[lo + t - 1] * b[c + 2 - lo - t]]

LowParts(p, base) == [t \in 1..Len(p) |-> p[t] % base]
HighParts(p, base) == [t \in 1..Len(p) |-> p[t] \div base]

\* The number whose limb i is the column total c[i] (below base^2).
Spread(c, R) ==
    BigAdd(Trim(LowParts(c, R.base)), ShiftLimbs(Trim(HighParts(c, R.base)), 1), R)

LowTotals(a, b, base) ==
    SubSeq([c \in 1..(Len(a) + Len(b) - 1) |-> Sum(LowParts(ColumnOf(a, b, c), base))],
           1, Len(a) + Len(b) - 1)
HighTotals(a, b, base) ==
    SubSeq([c \in 1..(Len(a) + Len(b) - 1) |-> Sum(HighParts(ColumnOf(a, b, c), base))],
           1, Len(a) + Len(b) - 1)

\* a * b
BigMul(a, b, R) ==
    IF a = <<>> \/ b = <<>> THEN <<>>
    ELSE BigAdd(Spread(LowTotals(a, b, R.base), R),
                ShiftLimbs(Spread(HighTotals(a, b, R.base), R), 1), R)

Square(p, R) == BigMul(p, p, R)

\* b^k for a machine-size b whose powers up to b^small are machine-size
Pow(b, k, small, R) ==
    LET power[i \in 0..k] ==
            IF i <= small THEN BigOf(b ^ i, R)
            ELSE IF i % 2 = 0 THEN Square(power[i \div 2], R)
            ELSE BigMul(Square(power[i \div 2], R), BigOf(b, R), R)
    IN  power[k]

\* a * d^n
ShiftUp(a, n, R) ==
    BigMul(ShiftLimbs(a, n \div R.w), <<R.d ^ (n % R.w)>>, R)

\* floor(a / d^n)
ShiftDown(a, n, R) ==
    LET skip == n \div R.w
        low == R.d ^ (n % R.w)
        high == R.d ^ (R.w - (n % R.w))
    IN  IF skip >= Len(a) THEN <<>>
        ELSE Trim([i \in 1..(Len(a) - skip) |->
                      Limb(a, skip + i) \div low + (Limb(a, skip + i + 1) % low) * high])

\* The number of digits of a (0 for zero).
NumDigits(a, R) ==
    IF a = <<>> THEN 0
    ELSE R.w * (Len(a) - 1) + Min({k \in 0..R.w : a[Len(a)] < R.d ^ k})

\* Digit n of a, digit 0 the least significant.
DigitAt(a, n, R) == (Limb(a, n \div R.w + 1) \div (R.d ^ (n % R.w))) % R.d

\* The number of 0 digits below the lowest digit of a > 0 that is not 0.
LowZeros(a, R) ==
    LET i == Min({j \in 1..Len(a) : a[j] # 0})
    IN  R.w * (i - 1) + Max({k \in 0..R.w : a[i] % (R.d ^ k) = 0})

\* Whether the n lowest digits of a are all 0.
LowZero(a, n, R) == a = <<>> \/ LowZeros(a, R) >= n

\* The limbs in radix to of the number with limbs a in radix from.
Convert(a, from, to) ==
    LET v[i \in 0..Len(a)] ==
            IF i = 0 THEN <<>>
            ELSE BigAdd(BigMul(v[i - 1], BigOf(from.base, to), to),
                        BigOf(a[Len(a) + 1 - i], to), to)
    IN  v[Len(a)]

DigitFromEnd(ds, p) == IF p < Len(ds) THEN ds[Len(ds) - p] ELSE 0

\* The number a sequence of decimal digits (values 0..9) denotes, in
\* radix Ten.
BigOfDigits(ds) ==
    Trim([j \in 1..((Len(ds) + 3) \div 4) |->
             DigitFromEnd(ds, 4 * j - 4) + 10 * DigitFromEnd(ds, 4 * j - 3)
             + 100 * DigitFromEnd(ds, 4 * j - 2) + 1000 * DigitFromEnd(ds, 4 * j - 1)])

\* The decimal digits of a number in radix Ten, most significant first
\* (<<>> for zero).
DecimalDigits(a) ==
    LET n == NumDigits(a, Ten)
    IN  SubSeq([i \in 1..n |-> DigitAt(a, n - i, Ten)], 1, n)

StripLeadingZeros(ds) ==
    IF \A i \in 1..Len(ds) : ds[i] = 0 THEN <<>>
    ELSE SubSeq(ds, Min({i \in 1..Len(ds) : ds[i] # 0}), Len(ds))

StripTrailingZeros(ds) ==
    IF \A i \in 1..Len(ds) : ds[i] = 0 THEN <<>>
    ELSE SubSeq(ds, 1, Max({i \in 1..Len(ds) : ds[i] # 0}))

\* ------------------------------------------------------------- floats

\* A float is an IEEE 754 binary64 value: sign * m * 2^e with m odd and
\* below 2^53 (m = <<>> for zero; m in radix Bin), an infinity, or NaN.
Finite(sign, m, e) == [cls |-> "finite", sign |-> sign, m |-> m, e |-> e]
Zero(sign) == Finite(sign, <<>>, 0)
Inf(sign) == [cls |-> "inf", sign |-> sign, m |-> <<>>, e |-> 0]
NaN == [cls |-> "nan", sign |-> 1, m |-> <<>>, e |-> 0]

\* The float sign * m * 2^e of a mantissa that needs no rounding; 2^1024 and
\* beyond is infinity.
Canon(sign, m, e) ==
    IF m = <<>> THEN Zero(sign)
    ELSE IF NumDigits(m, Bin) + e > 1024 THEN Inf(sign)
    ELSE Finite(sign, ShiftDown(m, LowZeros(m, Bin), Bin), e + LowZeros(m, Bin))

\* Round half to even: the bit just dropped, whether anything lower was
\* dropped, and the parity of what is kept.
RoundUp(q, roundbit, rest) ==
    IF roundbit = 1 /\ (rest \/ DigitAt(q, 0, Bin) = 1)
    THEN BigAdd(q, <<1>>, Bin)
    ELSE q

\* The float nearest to sign * (S + x) * 2^e, ties to the even mantissa,
\* where 0 <= x < 1 and x > 0 iff sticky: 53 bits are kept, but no bit
\* below 2^-1074.
RoundBin(sign, S, e, sticky) ==
    LET top == e + NumDigits(S, Bin) - 53
        shift == (IF top < -1074 THEN -1074 ELSE top) - e
    IN  IF shift <= 0 THEN Canon(sign, S, e)
        ELSE Canon(sign,
                   RoundUp(ShiftDown(S, shift, Bin), DigitAt(S, shift - 1, Bin),
                           sticky \/ ~LowZero(S, shift - 1, Bin)),
                   e + shift)

\* N * 10^x / 2^t as a number in radix Ten times a power of ten.
Scaled(N, x, t) ==
    IF t >= 0 THEN [a |-> BigMul(N, Pow(5, t, 13, Ten), Ten), x |-> x - t]
    ELSE [a |-> BigMul(N, Pow(2, 0 - t, 30, Ten), Ten), x |-> x]

\* floor(s.a * 10^s.x), and whether it is less than s.a * 10^s.x
Floor(s) ==
    IF s.x >= 0 THEN [q |-> ShiftUp(s.a, s.x, Ten), sticky |-> FALSE]
    ELSE [q |-> ShiftDown(s.a, 0 - s.x, Ten), sticky |-> ~LowZero(s.a, 0 - s.x, Ten)]

\* The float nearest to sign * (the number of the digits ds, the first not
\* 0) * 10^exp10. With p the position of the first digit, dividing by 2^t
\* leaves 55 to 61 bits before the point.
DecimalOf(sign, ds, exp10) ==
    LET p == Len(ds) + exp10
        t == ((p - 1) * 332192) \div 100000 - 55
        f == Floor(Scaled(BigOfDigits(ds), exp10, t))
    IN  IF p > 310 THEN Inf(sign)
        ELSE IF p < -330 THEN Zero(sign)
        ELSE RoundBin(sign, Convert(f.q, Ten, Bin), t, f.sticky)

\* The float nearest to sign * (the number of the digits) * 10^exp10.
ParseDecimal(sign, ds, exp10) ==
    IF \A i \in 1..Len(ds) : ds[i] = 0 THEN Zero(sign)
    ELSE DecimalOf(sign, StripLeadingZeros(ds), exp10)

DigitChars == <<"0", "1", "2", "3", "4", "5", "6", "7", "8", "9">>
IsDigit(c) == \E i \in 1..Len(DigitChars) : DigitChars[i] = c
DigitVal(c) == (CHOOSE i \in 1..Len(DigitChars) : DigitChars[i] = c) - 1

\* The digits of a machine-size natural.
DigitsOfNat(n) == DecimalDigits(BigOf(n, Ten))

\* The float written m * 10^-e in decimal (2.5 is Dec(25, 1)).
Dec(m, e) ==
    IF m < 0 THEN ParseDecimal(-1, DigitsOfNat(0 - m), 0 - e)
    ELSE ParseDecimal(1, DigitsOfNat(m), 0 - e)

AddAligned(sa, A, sb, B, e) ==
    IF sa = sb THEN RoundBin(sa, BigAdd(A, B, Bin), e, FALSE)
    ELSE IF A = B THEN Zero(1)
    ELSE IF BigLess(A, B) THEN RoundBin(sb, BigSub(B, A, Bin), e, FALSE)
    ELSE RoundBin(sa, BigSub(A, B, Bin), e, FALSE)

AddFinite(a, b) ==
    LET e == IF a.e < b.e THEN a.e ELSE b.e
    IN  AddAligned(a.sign, ShiftUp(a.m, a.e - e, Bin),
                   b.sign, ShiftUp(b.m, b.e - e, Bin), e)

\* a + b in float arithmetic (round to nearest, ties to even)
FloatAdd(a, b) ==
    IF a.cls = "nan" \/ b.cls = "nan" THEN NaN
    ELSE IF a.cls = "inf"
    THEN (IF b.cls = "inf" /\ b.sign # a.sign THEN NaN ELSE a)
    ELSE IF b.cls = "inf" THEN b
    ELSE IF a.m = <<>>
    THEN (IF b.m = <<>>
          THEN Zero(IF a.sign = -1 /\ b.sign = -1 THEN -1 ELSE 1)
          ELSE b)
    ELSE IF b.m = <<>> THEN a
    ELSE AddFinite(a, b)

\* ------------------------------------------------------------ float(str)

\* The characters float() ignores around a literal: the ASCII whitespace
\* (blank, tab, line feed, vertical tab, form feed, carriage return; not the
\* separators U+001C to U+001F) and the Unicode spaces, of which a string of
\* this module can hold U+0085 and U+00A0. The spaces from U+1680 on, and
\* the decimal digits of other scripts that float() reads as digits, are
\* outside the alphabet of the module.
Whitespace == {" ", "\t", "\n", "", "\f", "\r", "", " "}

\* str.strip() of the whitespace
Strip(chars) ==
    IF \A i \in 1..Len(chars) : chars[i] \in Whitespace THEN <<>>
    ELSE SubSeq(chars, Min({i \in 1..Len(chars) : chars[i] \notin Whitespace}),
                       Max({i \in 1..Len(chars) : chars[i] \notin Whitespace}))

\* The text spells a word, in any mix of the two cases of its letters.
Spells(text, word) ==
    /\ Len(text) = Len(word)
    /\ \A i \in 1..Len(word) : text[i] \in word[i]

\* An underscore may only stand between two digits.
UnderscoresOk(body) ==
    \A i \in 1..Len(body) :
        body[i] = "_" =>
            /\ i > 1 /\ IsDigit(body[i - 1])
            /\ i < Len(body) /\ IsDigit(body[i + 1])

NotUnderscore(c) == c # "_"

DigitValues(chars) == [i \in 1..Len(chars) |-> DigitVal(chars[i])]

\* The mantissa of a literal: digits with at most one point and at least
\* one digit.
IsMantissa(body) ==
    /\ \A i \in 1..Len(body) : IsDigit(body[i]) \/ body[i] = "."
    /\ Cardinality({i \in 1..Len(body) : body[i] = "."}) <= 1
    /\ \E i \in 1..Len(body) : IsDigit(body[i])

\* The number of digits after the point.
FracLen(body) ==
    IF \A i \in 1..Len(body) : body[i] # "." THEN 0
    ELSE Len(body) - Min({i \in 1..Len(body) : body[i] = "."})

\* The exponent of a literal: an optional sign and at least one digit.
IsExponent(ex) ==
    /\ ex # <<>>
    /\ \A i \in 2..Len(ex) : IsDigit(ex[i])
    /\ \/ IsDigit(ex[1])
       \/ ex[1] \in {"+", "-"} /\ Len(ex) >= 2

\* The value of a run of exponent digits. strtod keeps an exponent of up to
\* nine significant digits exactly and takes any longer one as 1100000000.
ExponentNat(chars) ==
    LET ds == StripLeadingZeros(DigitValues(chars))
    IN  IF Len(ds) > 9 THEN 1100000000
        ELSE Sum([i \in 1..Len(ds) |-> ds[i] * 10 ^ (Len(ds) - i)])

ExponentOf(ex) ==
    IF ex = <<>> THEN 0
    ELSE IF ex[1] = "-" THEN 0 - ExponentNat(Tail(ex))
    ELSE IF ex[1] = "+" THEN ExponentNat(Tail(ex))
    ELSE ExponentNat(ex)

\* strtod takes at most 10^9 digits after the point and 10^9 digits from
\* the first that is not a leading zero.
DigitCountsOk(mant) ==
    LET point == IF \A i \in 1..Len(mant) : mant[i] # "." THEN Len(mant) + 1
                 ELSE Min({i \in 1..Len(mant) : mant[i] = "."})
        whole == StripLeadingZeros(DigitValues(SubSeq(mant, 1, point - 1)))
        frac == DigitValues(SubSeq(mant, point + 1, Len(mant)))
    IN  /\ Len(frac) <= 1000000000
        /\ Len(whole) + (IF whole = <<>> THEN Len(StripLeadingZeros(frac)) ELSE Len(frac))
               <= 1000000000

FloatOfParts(mant, ex, sign) ==
    IF IsMantissa(mant) /\ DigitCountsOk(mant) /\ (ex = <<>> \/ IsExponent(ex))
    THEN Ok(ParseDecimal(sign, DigitValues(SelectSeq(mant, IsDigit)),
                         ExponentOf(ex) - FracLen(mant)))
    ELSE Raise("ValueError")

\* A literal without its underscores: mantissa, and after the first "e" or
\* "E" the exponent, which a literal that has the letter must have.
FloatOfNumber(body, sign) ==
    IF \A i \in 1..Len(body) : body[i] \notin {"e", "E"}
    THEN FloatOfParts(body, <<>>, sign)
    ELSE IF Min({i \in 1..Len(body) : body[i] \in {"e", "E"}}) = Len(body)
    THEN Raise("ValueError")
    ELSE FloatOfParts(
             SubSeq(body, 1, Min({i \in 1..Len(body) : body[i] \in {"e", "E"}}) - 1),
             SubSeq(body, Min({i \in 1..Len(body) : body[i] \in {"e", "E"}}) + 1,
                    Len(body)),
             sign)

\* The literal after its sign: "inf", "infinity" and "nan" in any case, or a
\* number.
FloatOfBody(body, sign) ==
    IF \/ Spells(body, <<{"i", "I"}, {"n", "N"}, {"f", "F"}>>)
       \/ Spells(body, <<{"i", "I"}, {"n", "N"}, {"f", "F"}, {"i", "I"}, {"n", "N"},
                         {"i", "I"}, {"t", "T"}, {"y", "Y"}>>)
    THEN Ok(Inf(sign))
    ELSE IF Spells(body, <<{"n", "N"}, {"a", "A"}, {"n", "N"}>>) THEN Ok(NaN)
    ELSE IF ~UnderscoresOk(body) THEN Raise("ValueError")
    ELSE FloatOfNumber(SelectSeq(body, NotUnderscore), sign)

FloatOfStripped(t) ==
    IF t # <<>> /\ Head(t) \in {"-", "+"}
    THEN FloatOfBody(Tail(t), IF Head(t) = "-" THEN -1 ELSE 1)
    ELSE FloatOfBody(t, 1)

\* float(token) of a str of ASCII characters: whitespace around the literal
\* is ignored; one sign may lead; then "inf", "infinity" or "nan" in any
\* case, or digits with at most one point and at least one digit, an
\* optional exponent ("e" or "E", optional sign, digits) and single
\* underscores between digits; the value is the float nearest to the
\* literal. Anything else raises ValueError.
float(token) == FloatOfStripped(Strip(token))

\* ------------------------------------------------------------ repr(float)

\* The exact decimal expansion of a finite float that is not zero: its
\* digits ds and the position decpt of the point (0.ds * 10^decpt).
Expansion(x) ==
    LET ds == DecimalDigits(BigMul(Convert(x.m, Bin, Ten),
                                   IF x.e >= 0 THEN Pow(2, x.e, 30, Ten)
                                   ELSE Pow(5, 0 - x.e, 13, Ten),
                                   Ten))
    IN  [ds |-> ds, decpt |-> Len(ds) + (IF x.e >= 0 THEN 0 ELSE x.e)]

\* The digits of (the number of ds) + 1
Increment(ds) ==
    IF \A i \in 1..Len(ds) : ds[i] = 9 THEN <<1>> \o [i \in 1..Len(ds) |-> 0]
    ELSE [i \in 1..Len(ds) |->
             IF i < Max({j \in 1..Len(ds) : ds[j] # 9}) THEN ds[i]
             ELSE IF i = Max({j \in 1..Len(ds) : ds[j] # 9}) THEN ds[i] + 1
             ELSE 0]

\* Reading the p-digit decimal back gives x.
ReadsBack(x, ds, decpt, p) == ParseDecimal(x.sign, ds, decpt - p) = x

Above(ex, p) == Increment(SubSeq(ex.ds, 1, p))

Suffices(x, ex, p) ==
    \/ p >= Len(ex.ds)
    \/ ReadsBack(x, SubSeq(ex.ds, 1, p), ex.decpt, p)
    \/ ReadsBack(x, Above(ex, p), ex.decpt, p)

\* The least number of digits that read back as x (17 always do).
ShortestLen(x, ex) ==
    LET first[p \in 1..17] ==
            IF p = 17 \/ Suffices(x, ex, p) THEN p ELSE first[p + 1]
    IN  first[1]

\* Whether what follows the first p digits is more than, less than or
\* exactly half a unit of the p-th digit: 1, -1, 0.
Remainder(ds, p) ==
    IF ds[p + 1] > 5 THEN 1
    ELSE IF ds[p + 1] < 5 THEN -1
    ELSE IF \E i \in (p + 2)..Len(ds) : ds[i] # 0 THEN 1
    ELSE 0

TakeAbove(ex, p) ==
    [ds |-> StripTrailingZeros(Above(ex, p)),
     decpt |-> ex.decpt + (Len(Above(ex, p)) - p)]
TakeBelow(ex, p) == [ds |-> StripTrailingZeros(SubSeq(ex.ds, 1, p)), decpt |-> ex.decpt]

Nearest(ex, p) ==
    IF Remainder(ex.ds, p) = 1 \/ (Remainder(ex.ds, p) = 0 /\ ex.ds[p] % 2 = 1)
    THEN TakeAbove(ex, p)
    ELSE TakeBelow(ex, p)

ShortestAt(x, ex, p) ==
    IF p >= Len(ex.ds) THEN [ds |-> StripTrailingZeros(ex.ds), decpt |-> ex.decpt]
    ELSE IF ~ReadsBack(x, Above(ex, p), ex.decpt, p) THEN
        (IF ReadsBack(x, SubSeq(ex.ds, 1, p), ex.decpt, p) THEN TakeBelow(ex, p)
         ELSE Nearest(ex, p))
    ELSE IF ~ReadsBack(x, SubSeq(ex.ds, 1, p), ex.decpt, p) THEN TakeAbove(ex, p)
    ELSE Nearest(ex, p)

\* The shortest decimal that reads back as x, the nearest to x of that length.
Shortest(x, ex) == ShortestAt(x, ex, ShortestLen(x, ex))

DigitText(ds) == [i \in 1..Len(ds) |-> DigitChars[ds[i] + 1]]

\* The exponent of the "e" notation: a sign and two digits or more.
ExponentText(n) ==
    (IF n < 0 THEN <<"e", "-">> ELSE <<"e", "+">>)
    \o (IF (IF n < 0 THEN 0 - n ELSE n) < 10 THEN <<"0">> ELSE <<>>)
    \o DigitText(DigitsOfNat(IF n < 0 THEN 0 - n ELSE n))

\* repr's layout of the digits: "e" notation when the point would be more
\* than three zeros before or more than 16 places after the first digit;
\* otherwise positional, with ".0" after an integer.
Layout(ds, decpt) ==
    IF decpt <= -4 \/ decpt > 16
    THEN <<DigitChars[ds[1] + 1]>>
         \o (IF Len(ds) > 1 THEN <<".">> \o DigitText(Tail(ds)) ELSE <<>>)
         \o ExponentText(decpt - 1)
    ELSE IF decpt <= 0
    THEN <<"0", ".">> \o [i \in 1..(0 - decpt) |-> "0"] \o DigitText(ds)
    ELSE IF decpt >= Len(ds)
    THEN DigitText(ds) \o [i \in 1..(decpt - Len(ds)) |-> "0"] \o <<".", "0">>
    ELSE DigitText(SubSeq(ds, 1, decpt)) \o <<".">>
         \o DigitText(SubSeq(ds, decpt + 1, Len(ds)))

\* repr(x) of a float, as str(list) renders the elements of a list.
Repr(x) ==
    IF x.cls = "nan" THEN <<"n", "a", "n">>
    ELSE (IF x.sign = -1 THEN <<"-">> ELSE <<>>)
         \o (IF x.cls = "inf" THEN <<"i", "n", "f">>
             ELSE IF x.m = <<>> THEN <<"0", ".", "0">>
             ELSE LET s == Shortest(x, Expansion(x)) IN Layout(s.ds, s.decpt))

\* ------------------------------------------------------ request payloads

\* str.split(sep) for a one-character separator: the pieces between
\* consecutive separators, one more than there are separators.
split(chars, sep) ==
    LET cuts == {0, Len(chars) + 1} \cup {i \in 1..Len(chars) : chars[i] = sep}
        cut(k) == CHOOSE c \in cuts : Cardinality({d \in cuts : d < c}) = k - 1
    IN  [k \in 1..(Cardinality(cuts) - 1) |-> SubSeq(chars, cut(k) + 1, cut(k + 1) - 1)]

LastOf(q) == q[Len(q)]

\* The list of floats, or the ValueError of the first float() that failed.
Collect(floats) ==
    IF \E i \in 1..Len(floats) : floats[i].kind = "raise" THEN Raise("ValueError")
    ELSE Ok([i \in 1..Len(floats) |-> floats[i].value])

\* [float(split_str[0].split("[")[-1])] + [float(y) for y in split_str[1:-1]]
\*   + [float(split_str[-1].split("]")[0])]
FloatsOf(split_str) ==
    <<float(LastOf(split(split_str[1], "[")))>>
    \o [i \in 1..(Len(split_str) - 2) |-> float(split_str[i + 1])]
    \o <<float(Head(split(split_str[Len(split_str)], "]")))>>

\* The parsing both handlers share: split on commas; of the first token keep
\* what follows its last "[", of the last token what precedes its first "]";
\* float() each.
ParseQuery(data) == Collect(FloatsOf(split(data, ",")))

\* -- the client's side: how a list becomes the query string

\* An item of a request: a number as str(list) renders it (0.1, -1e-05 and
\* nan), or a token that is no number.
Num(x) == [num |-> TRUE, value |-> x, text |-> Repr(x)]
Junk == [num |-> FALSE, value |-> Zero(1), text |-> <<"x">>]
Items == {Num(x) : x \in {Dec(1, 1), Dec(-1, 5), NaN}} \cup {Junk}

\* sep.join of the items' texts
Join(items, sep) ==
    LET joined[i \in 1..Len(items)] ==
            IF i = 1 THEN items[1].text ELSE joined[i - 1] \o sep \o items[i].text
    IN  joined[Len(items)]

\* The query strings sent: a list of items between an opening and a closing,
\* "[0.1,nan]" and str(list)'s "[0.1, nan]" among them.
Sources ==
    {[opening |-> o, items |-> it, closing |-> c, sep |-> sp] :
        o \in {<<"[">>, <<>>, <<"x", "[">>},
        c \in {<<"]">>, <<>>, <<"]", "x">>},
        sp \in {<<",">>, <<",", " ">>},
        it \in UNION {[1..n -> Items] : n \in 1..MaxItems}}

Payload(src) == src.opening \o Join(src.items, src.sep) \o src.closing

\* --------------------------------------------------------------- handlers

\* The feature schema of module modeling_features (imported by the dryer
\* Lambda): the ordered request features, the inputs of each model, and the
\* columns of the predicted distribution.
modeling_features_together == <<"temperature", "elapsed_time", "moisture">>
remaining_time_x_feats == <<"temperature", "elapsed_time", "moisture">>
distribution_x_feats == <<"elapsed_time", "moisture", "temperature">>
moisture_dist_columns == <<"moisture_low", "moisture_high">>

SeqToSet(q) == {q[i] : i \in 1..Len(q)}
IndexOf(q, x) == CHOOSE i \in 1..Len(q) : q[i] = x

\* pd.Series(data=values, index=index): ValueError unless the lengths agree.
Series(values, index) ==
    IF Len(values) # Len(index) THEN Raise("ValueError")
    ELSE Ok([f \in SeqToSet(index) |-> values[IndexOf(index, f)]])

\* data.loc[feats]: the values of the features in the order of feats
Loc(data, feats) == [i \in 1..Len(feats) |-> data[feats[i]]]

\* .dropna() keeps the values that are not NaN
NotNaN(x) == x.cls # "nan"

\* .to_numpy().reshape(-1, n): the values in rows of n, ValueError when
\* they do not fill whole rows.
Reshape(values, n) ==
    IF Len(values) % n # 0 THEN Raise("ValueError")
    ELSE Ok([r \in 1..(Len(values) \div n) |-> SubSeq(values, (r - 1) * n + 1, r * n)])

\* data.loc[feats].dropna().to_numpy().reshape(-1, len(feats))
ModelInput(data, feats) == Reshape(SelectSeq(Loc(data, feats), NotNaN), Len(feats))

Call(name, input, output) == [model |-> name, input |-> input, output |-> output]

\* What a model's predict() may do: return an array (here flattened), or
\* raise.
TimeOutcomes == {Ok(<<Dec(2, 1)>>), Ok(<<>>), Raise("PredictError")}
DistOutcomes == {Ok(<<Dec(1, 1), Dec(2, 1)>>), Raise("PredictError")}

\* pd.Series(predict(...).reshape(-1), index=[f"{col}_model" for col in ...]):
\* ValueError unless there is one value to the column.
DistributionSeries(values) ==
    IF Len(values) # Len(moisture_dist_columns) THEN Raise("ValueError")
    ELSE Ok([i \in 1..Len(moisture_dist_columns) |->
                [column |-> <<moisture_dist_columns[i], "_model">>, value |-> values[i]]])

\* distribution_model.predict on its input, the Series of its output, and
\* the return of both results.
PredictDistribution(call1, remaining_drying_time, input, dist_out) ==
    LET calls == <<call1, Call("distribution_model", input.value, dist_out)>>
        predicted_distribution == DistributionSeries(dist_out.value)
    IN  IF input.kind = "raise" THEN [calls |-> <<call1>>, out |-> Raise(input.error)]
        ELSE IF dist_out.kind = "raise"
        THEN [calls |-> calls, out |-> Raise(dist_out.error)]
        ELSE IF predicted_distribution.kind = "raise"
        THEN [calls |-> calls, out |-> Raise(predicted_distribution.error)]
        ELSE [calls |-> calls,
              out |-> Ok([remaining_drying_time |-> remaining_drying_time,
                          predicted_distribution |-> predicted_distribution.value])]

\* Mutant: elapsed_time is left as received.
FoldRemainingTime_unchanged(data, remaining_drying_time) ==
    IF Len(remaining_drying_time) # 1 THEN Raise("TypeError")
    ELSE Ok(data)

\* data["elapsed_time"] = float(data["elapsed_time"] + remaining_drying_time):
\* float() of an array is its one element, TypeError for any other size.
FoldRemainingTime(data, remaining_drying_time) ==
    IF Len(remaining_drying_time) # 1 THEN Raise("TypeError")
    ELSE Ok([data EXCEPT !["elapsed_time"] = FloatAdd(@, remaining_drying_time[1])])

\* Modeling.get_prediction: predict the remaining drying time; add it to
\* data["elapsed_time"]; predict the distribution from the updated data.
\* time_out and dist_out are what the two models' predict() do when called.
get_prediction(data, time_out, dist_out) ==
    LET input == ModelInput(data, remaining_time_x_feats)
        call1 == Call("drying_time_model", input.value, time_out)
        folded == FoldRemainingTime(data, time_out.value)
    IN  IF input.kind = "raise" THEN [calls |-> <<>>, out |-> Raise(input.error)]
        ELSE IF time_out.kind = "raise"
        THEN [calls |-> <<call1>>, out |-> Raise(time_out.error)]
        ELSE IF folded.kind = "raise"
        THEN [calls |-> <<call1>>, out |-> Raise(folded.error)]
        ELSE PredictDistribution(call1, time_out.value,
                                 ModelInput(folded.value, distribution_x_feats), dist_out)

Response200(body, parsed) ==
    [kind |-> "response", statusCode |-> 200, error |-> "", body |-> body,
     formatted_data |-> parsed]
Unhandled(e, parsed) ==
    [kind |-> "raise", statusCode |-> 0, error |-> e, body |-> <<>>,
     formatted_data |-> parsed]

\* The tensorflow handler from its parsed list on: get_prediction returns 1
\* whatever the input.
TensorflowRespond(formatted_data) ==
    IF formatted_data.kind = "raise"
    THEN [calls |-> <<>>, response |-> Unhandled(formatted_data.error, formatted_data)]
    ELSE [calls |-> <<Call("get_prediction", formatted_data.value, Ok(1))>>,
          response |-> Response200([prediction |-> 1], formatted_data)]

\* tensorflow_lambda.handler: parse q, call get_prediction, answer 200.
tensorflow_handler(data) == TensorflowRespond(ParseQuery(data))

\* The dryer handler's response from the result of Modeling(...).
DryerAnswer(formatted_data, p) ==
    IF p.out.kind = "raise"
    THEN [calls |-> p.calls, response |-> Unhandled(p.out.error, formatted_data)]
    ELSE [calls |-> p.calls,
          response |->
              Response200(
                  [remaining_drying_time |-> p.out.value.remaining_drying_time[1],
                   predicted_distribution |-> p.out.value.predicted_distribution],
                  formatted_data)]

\* The dryer handler from input_data = pd.Series(...) on.
DryerPredict(formatted_data, input_data, time_out, dist_out) ==
    IF input_data.kind = "raise"
    THEN [calls |-> <<>>, response |-> Unhandled(input_data.error, formatted_data)]
    ELSE DryerAnswer(formatted_data, get_prediction(input_data.value, time_out, dist_out))

\* The dryer handler from its parsed list on.
DryerRespond(formatted_data, time_out, dist_out) ==
    IF formatted_data.kind = "raise"
    THEN [calls |-> <<>>, response |-> Unhandled(formatted_data.error, formatted_data)]
    ELSE DryerPredict(formatted_data,
                      Series(formatted_data.value, modeling_features_together),
                      time_out, dist_out)

\* The handler's return (or exception) reaches the invocation shim.
Deliver(r) ==
    /\ response' = r.response
    /\ predictCalls' = r.calls

\* One invocation of the tensorflow Lambda.
TensorflowHandler ==
    /\ request.variant = "tensorflow"
    /\ response.kind = "none"
    /\ Deliver(tensorflow_handler(request.payload))
    /\ UNCHANGED <<loaderVars, concVars, request>>

\* What the dryer handler may do from its parsed list on: one result for
\* each thing the two models may do.
DryerOutcomes(formatted_data) ==
    {DryerRespond(formatted_data, time_out, dist_out) :
        time_out \in TimeOutcomes, dist_out \in DistOutcomes}

\* dryer_prediction_lambda.handler: parse q, build the Series over the
\* feature names, run the two predictions, answer 200 with both.
dryer_handler(data) == DryerOutcomes(ParseQuery(data))

\* One invocation of the dryer Lambda.
DryerHandler ==
    /\ request.variant = "dryer"
    /\ response.kind = "none"
    /\ \E r \in dryer_handler(request.payload) : Deliver(r)
    /\ UNCHANGED <<loaderVars, concVars, request>>

\* A warm process of either Lambda (its import succeeded) receives a request.
InitHandler ==
    /\ efs = [p \in LocalPaths |-> File(ArtifactA)]
    /\ s3 = [o \in S3Objects |-> File(ArtifactA)]
    /\ globals = [model |-> joblib_load(ArtifactA).value,
                  drying_time_model |-> joblib_load(ArtifactA).value,
                  distribution_model |-> joblib_load(ArtifactA).value]
    /\ call = Idle
    /\ last = NoCall
    /\ prev = NoCall
    /\ steps = 0
    /\ atomicReplace = TRUE
    /\ target = TensorflowName
    /\ pc = [w \in {} |-> "done"]
    /\ wres = [w \in {} |-> NoFile]
    /\ \E v \in {"tensorflow", "dryer"}, src \in Sources :
          request = [variant |-> v, payload |-> Payload(src), src |-> src]
    /\ response = NoResponse
    /\ predictCalls = <<>>

NextHandler ==
    \/ TensorflowHandler
    \/ DryerHandler

SpecHandler == InitHandler /\ [][NextHandler]_vars

\* ------------------------------------------------------ handler properties

Handled == response.kind # "none"

\* The request is the rendering of a list of numbers.
AllNumbers == \A i \in 1..Len(request.src.items) : request.src.items[i].num
ListValues == [i \in 1..Len(request.src.items) |-> request.src.items[i].value]

\* C6 as stated: the rendering "[x1,...,xn]" of a list of n >= 1 numbers is
\* parsed to exactly x1..xn in order, and so is the rendering of two or more
\* numbers that lacks the closing bracket.
C6_ParsesRenderedLists ==
    (/\ Handled
     /\ AllNumbers
     /\ request.src.opening = <<"[">>
     /\ \/ request.src.closing = <<"]">>
        \/ request.src.closing = <<>> /\ Len(request.src.items) >= 2) =>
        response.formatted_data = Ok(ListValues)

\* What holds of the code: renderings of two or more numbers, closed or not,
\* parse to the list.
C6_ParsesListsOfTwoOrMore ==
    (/\ Handled
     /\ AllNumbers
     /\ Len(request.src.items) >= 2
     /\ request.src.opening = <<"[">>
     /\ request.src.closing \in {<<"]">>, <<>>}) =>
        response.formatted_data = Ok(ListValues)

\* The parsing contract's tokens: split on commas, leading "[" stripped from
\* the first token, trailing "]" from the last.
LStrip(chars, c) ==
    IF \A i \in 1..Len(chars) : chars[i] = c THEN <<>>
    ELSE SubSeq(chars, Min({i \in 1..Len(chars) : chars[i] # c}), Len(chars))

RStrip(chars, c) ==
    IF \A i \in 1..Len(chars) : chars[i] = c THEN <<>>
    ELSE SubSeq(chars, 1, Max({i \in 1..Len(chars) : chars[i] # c}))

StripBrackets(t) ==
    [i \in 1..Len(t) |->
        IF i = 1 /\ i = Len(t) THEN RStrip(LStrip(t[i], "["), "]")
        ELSE IF i = 1 THEN LStrip(t[i], "[")
        ELSE IF i = Len(t) THEN RStrip(t[i], "]")
        ELSE t[i]]

ContractTokens(data) == StripBrackets(split(data, ","))

SomeNotNumeric(t) == \E i \in 1..Len(t) : float(t[i]).kind = "raise"

\* The request is malformed: some token is not numeric after bracket
\* stripping, or (dryer) the number of values is not the feature count.
Malformed ==
    \/ /\ request.variant = "dryer"
       /\ Len(split(request.payload, ",")) # Len(modeling_features_together)
    \/ SomeNotNumeric(ContractTokens(request.payload))

\* C7 as stated: a malformed request fails before any call of predict and
\* gets no 200 response.
C7_RejectsMalformed ==
    (Handled /\ Malformed) =>
        /\ response.kind = "raise"
        /\ predictCalls = <<>>

\* The values the dryer handler mapped onto the feature names.
Received(f) == response.formatted_data.value[IndexOf(modeling_features_together, f)]

\* The feature vector the second stage is due, in the order of its features.
FoldedVector(remaining_drying_time) ==
    [j \in 1..Len(distribution_x_feats) |->
        IF distribution_x_feats[j] = "elapsed_time"
        THEN FloatAdd(Received("elapsed_time"), remaining_drying_time)
        ELSE Received(distribution_x_feats[j])]

\* C8 (two-stage pipeline): in the dryer handler the distribution model's
\* predict is called only as the second call, after the drying-time model's
\* predict returned; every feature vector in its input has elapsed_time =
\* received elapsed_time + predicted remaining time and every other feature
\* as received; a 200 response carries the predicted remaining time and the
\* predicted distribution.
C8_TwoStagePipeline ==
    (request.variant = "dryer" /\ Handled) =>
        /\ Len(predictCalls) <= 2
        /\ \A i \in 1..Len(predictCalls) :
              predictCalls[i].model = "distribution_model" =>
                  /\ i = 2
                  /\ predictCalls[1].model = "drying_time_model"
                  /\ predictCalls[1].output.kind = "ok"
                  /\ \A r \in 1..Len(predictCalls[i].input) :
                        predictCalls[i].input[r] =
                            FoldedVector(predictCalls[1].output.value[1])
        /\ response.kind = "response" =>
              /\ response.statusCode = 200
              /\ Len(predictCalls) = 2
              /\ response.body.remaining_drying_time = predictCalls[1].output.value[1]
              /\ \A k \in 1..Len(moisture_dist_columns) :
                    response.body.predicted_distribution[k].value =
                        predictCalls[2].output.value[k]

\* A request of three numbers was answered 200 after both predictions, the
\* second on a feature vector whose elapsed_time is the float sum 0.1 + 0.2,
\* which is not 0.3.
C8_Witness ==
    /\ request.variant = "dryer"
    /\ response.kind = "response"
    /\ Len(predictCalls) = 2
    /\ AllNumbers /\ request.src.opening = <<"[">> /\ request.src.closing = <<"]">>
    /\ Received("elapsed_time") = Dec(1, 1)
    /\ Len(predictCalls[2].input) = 1
    /\ predictCalls[2].input[1][IndexOf(distribution_x_feats, "elapsed_time")]
          \notin {Dec(1, 1), Dec(3, 1)}

====
